---- MODULE Spec2Model ----
(***************************************************************************)
(* Object-model facade (Client / Database / Container / Item) over the     *)
(* Cosmos DB transport context, in its two variants:                       *)
(*   "azure"     - azure/cosmos/client.py                                  *)
(*   "prototype" - prototype/client.py                                     *)
(* The transport context is the environment: it holds the remote account   *)
(* (the databases, in the order it lists them), answers each call from     *)
(* that state, and records the headers of the last completed response.     *)
(* Every facade method is one action that performs all the transport calls *)
(* the method makes; a generator method is one action that creates the     *)
(* generator and one action per next() on it.                              *)
(***************************************************************************)
EXTENDS Integers, Sequences, FiniteSets, TLC

\* ------------------------------------------------------------------ bounds
NumIds == 2          \* database ids a caller uses
NumTokens == 2       \* session tokens the service hands out
MaxItems == 2        \* documents one ReadItems feed returns
NumContainers == 2   \* container ids a caller uses
NumUsers == 2        \* user ids a caller uses

\* -------------------------------------------------------- python values
\* Python values are tagged, so that None, ints, bools, strings and dicts
\* stay distinct values.
None == [t |-> "None"]
PyStr(s) == [t |-> "str", v |-> s]
PyInt(n) == [t |-> "int", v |-> n]
PyBool(b) == [t |-> "bool", v |-> b]
PyDict(name) == [t |-> "dict", v |-> name]

Variants == {"azure", "prototype"}

DbIds == {"db" \o ToString(i) : i \in 1..NumIds}
Tokens == {"0:" \o ToString(i) : i \in 1..NumTokens}

\* HTTP statuses of the transport's HTTPFailure
Conflict == 409
NotFound == 404
\* failures of CreateDatabase other than a conflict
OtherFailures == {403, 500}

\* outcome of a facade call
Returned(value) == [kind |-> "returned", value |-> value]
Raised(error, status) == [kind |-> "raised", error |-> error, status |-> status]
\* answer of one transport call
Answer(verb, link, status) == [verb |-> verb, link |-> link, status |-> status]
AnswerWithBody(verb, link, status, body) ==
    [verb |-> verb, link |-> link, status |-> status, body |-> body]
Failed(answer) == answer.status >= 400

VARIABLES
    variant,                \* which client module the program uses
    databases,              \* transport: the account's databases, in feed order
    containers,             \* transport: the database's containers, in feed order
    last_response_headers,  \* transport: headers of the last completed response
    session_token,          \* Container.session_token of the container handle
    databases_gen,          \* the generator list_databases() returned
    items_gen,              \* the generator list_items() returned
    call,                   \* the facade call made last, with its arguments
    sent,                   \* the transport calls that call made, with answers
    outcome                 \* what the facade call did: returned / raised

vars == <<variant, databases, containers, last_response_headers, session_token,
          databases_gen, items_gen, call, sent, outcome>>

\* ------------------------------------------------------------- sequences
RECURSIVE SeqToSet(_)
SeqToSet(s) == IF s = <<>> THEN {} ELSE {Head(s)} \cup SeqToSet(Tail(s))

RECURSIVE Remove(_, _)
Remove(s, x) ==
    IF s = <<>> THEN <<>>
    ELSE IF Head(s) = x THEN Remove(Tail(s), x)
    ELSE <<Head(s)>> \o Remove(Tail(s), x)

\* ------------------------------------------------------ transport context
\* Headers of responses that carry no session token.
PlainHeaders == ("x-ms-request-charge" :> PyStr("1"))
TokenHeaders(token) == PlainHeaders @@ ("x-ms-session-token" :> PyStr(token))
ResponseHeaders == {PlainHeaders} \cup {TokenHeaders(tk) : tk \in Tokens}

\* The service addresses a database by name as dbs/{id}, with or without
\* the leading slash.
ResolveDatabase(link) ==
    {d \in DbIds : link = "dbs/" \o d \/ link = "/dbs/" \o d}

DatabaseProperties(id) == [id |-> id, _self |-> "dbs/" \o id \o "==/"]

\* CreateDatabase(database=dict(id=id)): fault = 0 is the service answering
\* from its state; any other fault is the failure status it answers with.
CreateDatabaseStatus(dbs, id, fault) ==
    IF fault # 0 THEN fault
    ELSE IF id \in SeqToSet(dbs) THEN Conflict
    ELSE 201

ReadDatabaseStatus(dbs, link) ==
    IF ResolveDatabase(link) \cap SeqToSet(dbs) # {} THEN 200 ELSE NotFound

DeleteDatabaseStatus(dbs, link) ==
    IF ResolveDatabase(link) \cap SeqToSet(dbs) # {} THEN 204 ELSE NotFound

RECURSIVE ReadDatabases(_)
ReadDatabases(dbs) ==
    IF dbs = <<>> THEN <<>>
    ELSE <<DatabaseProperties(Head(dbs))>> \o ReadDatabases(Tail(dbs))

\* ---------------------------------------------------------------- handles
\* Database.__init__ (and DatabaseResponse.__init__ in the azure variant)
Database(v, id, properties) ==
    IF v = "azure"
    THEN [cls |-> "DatabaseResponse", id |-> id,
          database_link |-> "/dbs/" \o id, properties |-> properties]
    ELSE [cls |-> "Database", id |-> id, database_link |-> "/dbs/" \o id]

\* ------------------------------------------------------------------ Client
\* the except clause of create_database: is the failure raised again?
ReraiseMutant(fail_if_exists, status) == status = Conflict

Reraise(fail_if_exists, status) == fail_if_exists /\ status = Conflict

\* get_database(id): the transport calls it makes and what it does
get_database_sent(v, dbs, id) ==
    IF v = "azure"
    THEN <<AnswerWithBody("ReadDatabase", "dbs/" \o id,
                          ReadDatabaseStatus(dbs, "dbs/" \o id),
                          DatabaseProperties(id))>>
    ELSE <<>>

get_database_outcome(v, dbs, id) ==
    IF v = "azure"
    THEN IF ReadDatabaseStatus(dbs, "dbs/" \o id) = 200
         THEN Returned(Database(v, id, DatabaseProperties(id)))
         ELSE Raised("HTTPFailure", ReadDatabaseStatus(dbs, "dbs/" \o id))
    ELSE Returned(Database(v, id, None))

create_database(id, fail_if_exists, fault) ==
    LET status == CreateDatabaseStatus(databases, id, fault)
        created == IF status = 201 THEN Append(databases, id) ELSE databases
        first == AnswerWithBody("CreateDatabase", "", status, [id |-> id])
    IN  /\ call' = [op |-> "create_database", id |-> id,
                    fail_if_exists |-> fail_if_exists]
        /\ databases' = created
        /\ IF status = 201
           THEN /\ sent' = <<first>>
                /\ outcome' = Returned(Database(variant,
                                  DatabaseProperties(id).id,
                                  DatabaseProperties(id)))
                /\ last_response_headers' = PlainHeaders
           ELSE IF Reraise(fail_if_exists, status)
           THEN /\ sent' = <<first>>
                /\ outcome' = Raised("HTTPFailure", status)
                /\ UNCHANGED last_response_headers
           ELSE /\ sent' = <<first>> \o get_database_sent(variant, created, id)
                /\ outcome' = get_database_outcome(variant, created, id)
                /\ last_response_headers' =
                       IF variant = "azure" /\ outcome'.kind = "returned"
                       THEN PlainHeaders ELSE last_response_headers
        /\ UNCHANGED <<containers, variant, session_token, databases_gen, items_gen>>

get_database(id) ==
    /\ call' = [op |-> "get_database", id |-> id]
    /\ sent' = get_database_sent(variant, databases, id)
    /\ outcome' = get_database_outcome(variant, databases, id)
    /\ last_response_headers' =
           IF variant = "azure" /\ outcome'.kind = "returned"
           THEN PlainHeaders ELSE last_response_headers
    /\ UNCHANGED <<containers, variant, databases, session_token, databases_gen, items_gen>>

\* delete_database: nothing catches the transport's failure
delete_database_outcomeMutant(status) ==
    IF status >= 400 /\ status # NotFound
    THEN Raised("HTTPFailure", status) ELSE Returned(None)

delete_database_outcome(status) ==
    IF status >= 400 THEN Raised("HTTPFailure", status) ELSE Returned(None)

delete_database(id) ==
    LET link == "dbs/" \o id
        status == DeleteDatabaseStatus(databases, link)
    IN  /\ call' = [op |-> "delete_database", id |-> id, before |-> databases]
        /\ sent' = <<Answer("DeleteDatabase", link, status)>>
        /\ databases' = IF status = 204
                        THEN Remove(databases,
                                    CHOOSE d \in ResolveDatabase(link) : TRUE)
                        ELSE databases
        /\ outcome' = delete_database_outcome(status)
        /\ last_response_headers' =
               IF status = 204 THEN PlainHeaders ELSE last_response_headers
        /\ UNCHANGED <<containers, variant, session_token, databases_gen, items_gen>>

\* QueryDatabases(query): the query of the sample, SELECT * FROM r WHERE
\* r.id=@id, identified by the id it is parameterised with
RECURSIVE QueryDatabases(_, _)
QueryDatabases(dbs, query) ==
    IF dbs = <<>> THEN <<>>
    ELSE (IF Head(dbs) = query.v
          THEN <<DatabaseProperties(Head(dbs))>> ELSE <<>>)
         \o QueryDatabases(Tail(dbs), query)

Queries == {PyDict(d) : d \in DbIds}

\* the list comprehension of list_databases: one handle per properties dict
WrapDatabasesMutant(v, feed) ==
    [i \in 1..(Len(feed) - 1) |-> Database(v, feed[i + 1].id, feed[i + 1])]

WrapDatabases(v, feed) ==
    [i \in 1..Len(feed) |-> Database(v, feed[i].id, feed[i])]

\* list_databases(query) only creates the generator; its body runs on the
\* first next().  The prototype variant takes no query.
list_databases(query) ==
    /\ variant = "prototype" => query = None
    /\ call' = [op |-> "list_databases", query |-> query]
    /\ sent' = <<>>
    /\ databases_gen' = [state |-> "created", query |-> query]
    /\ outcome' = Returned([t |-> "generator"])
    /\ UNCHANGED <<containers, variant, databases, last_response_headers, session_token,
                   items_gen>>

\* next() on the generator of list_databases
next_database ==
    /\ databases_gen.state # "none"
    /\ call' = [op |-> "next_database"]
    /\ \/ /\ databases_gen.state = "created"
          /\ LET feed == IF databases_gen.query # None
                         THEN QueryDatabases(databases, databases_gen.query)
                         ELSE ReadDatabases(databases)
                 handles == WrapDatabases(variant, feed)
                 verb == IF databases_gen.query # None
                         THEN "QueryDatabases" ELSE "ReadDatabases"
             IN  /\ sent' = <<AnswerWithBody(verb, "", 200, feed)>>
                 /\ last_response_headers' = PlainHeaders
                 /\ IF handles = <<>>
                    THEN /\ databases_gen' =
                              [state |-> "finished",
                               query |-> databases_gen.query, feed |-> feed,
                               handles |-> handles, yielded |-> <<>>]
                         /\ outcome' = Raised("StopIteration", 0)
                    ELSE /\ databases_gen' =
                              [state |-> "suspended",
                               query |-> databases_gen.query, feed |-> feed,
                               handles |-> handles,
                               yielded |-> <<handles[1]>>]
                         /\ outcome' = Returned(handles[1])
       \/ /\ databases_gen.state = "suspended"
          /\ sent' = <<>>
          /\ UNCHANGED last_response_headers
          /\ LET n == Len(databases_gen.yielded)
             IN  IF n < Len(databases_gen.handles)
                 THEN /\ databases_gen' =
                           [databases_gen EXCEPT
                              !.yielded = Append(@, databases_gen.handles[n + 1])]
                      /\ outcome' = Returned(databases_gen.handles[n + 1])
                 ELSE /\ databases_gen' =
                           [databases_gen EXCEPT !.state = "finished"]
                      /\ outcome' = Raised("StopIteration", 0)
       \/ /\ databases_gen.state = "finished"
          /\ sent' = <<>>
          /\ outcome' = Raised("StopIteration", 0)
          /\ UNCHANGED <<last_response_headers, databases_gen>>
    /\ UNCHANGED <<containers, variant, databases, session_token, items_gen>>

\* --------------------------------------------------------------- Container
ContainerId == "c1"
ItemIds == {"i" \o ToString(i) : i \in 1..MaxItems}

\* Container.__init__; database is a Database handle or, in the azure
\* variant, a database id
Container(v, database, id) ==
    LET database_link == IF v = "azure" /\ "database_link" \notin DOMAIN database
                         THEN "dbs/" \o database.v
                         ELSE database.database_link
    IN  [t |-> "Container", id |-> id,
         collection_link |-> database_link \o "/colls/" \o id]

\* the database handle and the container handle the program works with
TheDatabase == Database(variant, "db1", None)
TheContainer == Container(variant, TheDatabase, ContainerId)

\* a document as the service stores it: _self is the service's own link
Document(id) == [id |-> id, _self |-> "dbs/Rd==/colls/Rc==/docs/" \o id \o "=="]

\* Item.__init__: a dict of the document's fields; the azure variant adds
\* the response headers, the prototype the container
Item(v, headers, data) ==
    IF v = "azure"
    THEN [t |-> "Item", data |-> data, response_headers |-> headers]
    ELSE [t |-> "Item", data |-> data,
          container |-> TheContainer.collection_link]

\* headers.get(key, default)
HeadersGetMutant(headers, key, default) ==
    IF key \in DOMAIN headers THEN headers[key] ELSE None

HeadersGet(headers, key, default) ==
    IF key \in DOMAIN headers THEN headers[key] ELSE default

\* a local computation either yields a value or raises
Ok(value) == [ok |-> TRUE, value |-> value]
Error(error) == [ok |-> FALSE, error |-> error]

\* dict subscript item["_self"]
Subscript(item, key) ==
    IF key \in DOMAIN item.data THEN Ok(item.data[key]) ELSE Error("KeyError")

\* Container._document_link
_document_linkMutant(v, item_or_link) ==
    IF item_or_link.t = "str" THEN Ok(item_or_link.v)
    ELSE Ok(TheContainer.collection_link \o "/docs/" \o item_or_link.data.id)

_document_link(v, item_or_link) ==
    IF v = "azure"
    THEN \* isinstance(item_or_link, str)
         IF item_or_link.t = "str" THEN Ok(item_or_link.v)
         ELSE Subscript(item_or_link, "_self")
    ELSE \* type(item_or_link) is "str": a type is never the string "str"
         IF FALSE THEN Ok(item_or_link.v)
         ELSE IF item_or_link.t = "str" THEN Error("TypeError")
         ELSE Subscript(item_or_link, "_self")

\* what callers pass as item: an Item read earlier, a dict built by hand
\* without _self, or a link string
ItemArguments ==
    {Item(variant, PlainHeaders, Document(i)) : i \in ItemIds}
    \cup {Item(variant, PlainHeaders, [id |-> i]) : i \in ItemIds}
    \cup {PyStr(Document(i)._self) : i \in ItemIds}
    \cup {PyStr(TheContainer.collection_link \o "/docs/" \o i) : i \in ItemIds}

Bodies == {[id |-> i, v |-> "new"] : i \in ItemIds}

get_item(id, status, headers) ==
    LET doc_link == TheContainer.collection_link \o "/docs/" \o id
    IN  /\ call' = [op |-> "get_item", id |-> id, before |-> session_token]
        /\ sent' = <<Answer("ReadItem", doc_link, status)>>
        /\ IF status >= 400
           THEN /\ outcome' = Raised("HTTPFailure", status)
                /\ UNCHANGED <<last_response_headers, session_token>>
           ELSE /\ last_response_headers' = headers
                /\ session_token' =
                       IF variant = "azure"
                       THEN HeadersGet(headers, "x-ms-session-token",
                                       session_token)
                       ELSE session_token
                /\ outcome' = Returned(Item(variant, headers, Document(id)))
        /\ UNCHANGED <<containers, variant, databases, databases_gen, items_gen>>

\* list_items(options) only creates the generator
list_items ==
    /\ call' = [op |-> "list_items"]
    /\ sent' = <<>>
    /\ items_gen' = [state |-> "created"]
    /\ outcome' = Returned([t |-> "generator"])
    /\ UNCHANGED <<containers, variant, databases, last_response_headers, session_token,
                   databases_gen>>

RECURSIVE ReadItems(_)
ReadItems(n) ==
    IF n = 0 THEN <<>>
    ELSE Append(ReadItems(n - 1), Document("i" \o ToString(n)))

WrapItems(v, headers, feed) ==
    [i \in 1..Len(feed) |-> Item(v, headers, feed[i])]

\* next() on the generator of list_items
next_item(status, headers, n) ==
    /\ items_gen.state # "none"
    /\ call' = [op |-> "next_item"]
    /\ \/ /\ items_gen.state = "created"
          /\ sent' = <<AnswerWithBody("ReadItems", TheContainer.collection_link,
                                      status, ReadItems(n))>>
          /\ IF status >= 400
             THEN /\ items_gen' = [state |-> "failed"]
                  /\ outcome' = Raised("HTTPFailure", status)
                  /\ UNCHANGED last_response_headers
             ELSE /\ last_response_headers' = headers
                  /\ LET items == WrapItems(variant, headers, ReadItems(n))
                     IN  IF items = <<>>
                         THEN /\ items_gen' =
                                   [state |-> "finished", headers |-> headers,
                                    items |-> items, yielded |-> 0]
                              /\ outcome' = Raised("StopIteration", 0)
                         ELSE /\ items_gen' =
                                   [state |-> "suspended", headers |-> headers,
                                    items |-> items, yielded |-> 1]
                              /\ outcome' = Returned(items[1])
       \/ /\ items_gen.state = "suspended"
          /\ sent' = <<>>
          /\ UNCHANGED last_response_headers
          /\ IF items_gen.yielded < Len(items_gen.items)
             THEN /\ items_gen' = [items_gen EXCEPT !.yielded = @ + 1]
                  /\ outcome' = Returned(items_gen.items[items_gen.yielded + 1])
             ELSE /\ items_gen' = [items_gen EXCEPT !.state = "finished"]
                  /\ outcome' = Raised("StopIteration", 0)
       \/ /\ items_gen.state \in {"finished", "failed"}
          /\ sent' = <<>>
          /\ outcome' = Raised("StopIteration", 0)
          /\ UNCHANGED <<last_response_headers, items_gen>>
    /\ UNCHANGED <<containers, variant, databases, session_token, databases_gen>>

\* the tail of replace_item / delete_item once the link is resolved
replace_item(item, body, status, headers) ==
    LET item_link == _document_link(variant, item)
    IN  /\ call' = [op |-> "replace_item", item |-> item, body |-> body]
        /\ IF ~item_link.ok
           THEN /\ sent' = <<>>
                /\ outcome' = Raised(item_link.error, 0)
                /\ UNCHANGED last_response_headers
           ELSE /\ sent' = <<AnswerWithBody("ReplaceItem", item_link.value,
                                            status, body)>>
                /\ IF status >= 400
                   THEN /\ outcome' = Raised("HTTPFailure", status)
                        /\ UNCHANGED last_response_headers
                   ELSE /\ last_response_headers' = headers
                        /\ outcome' = Returned(Item(variant, headers, body))
        /\ UNCHANGED <<containers, variant, databases, session_token, databases_gen,
                       items_gen>>

delete_item(item, status, headers) ==
    LET document_link == _document_link(variant, item)
    IN  /\ call' = [op |-> "delete_item", item |-> item]
        /\ IF ~document_link.ok
           THEN /\ sent' = <<>>
                /\ outcome' = Raised(document_link.error, 0)
                /\ UNCHANGED last_response_headers
           ELSE /\ sent' = <<Answer("DeleteItem", document_link.value, status)>>
                /\ IF status >= 400
                   THEN /\ outcome' = Raised("HTTPFailure", status)
                        /\ UNCHANGED last_response_headers
                   ELSE /\ last_response_headers' = headers
                        /\ outcome' = Returned(None)
        /\ UNCHANGED <<containers, variant, databases, session_token, databases_gen,
                       items_gen>>

\* ---------------------------------------------------------------- Database
\* Container and user operations of the database handle TheDatabase.
ContainerIds == {"c" \o ToString(i) : i \in 1..NumContainers}
UserIds == {"u" \o ToString(i) : i \in 1..NumUsers}

\* The service addresses a container of the database by name as
\* {database link}/colls/{id}, with or without the leading slash.
ResolveContainer(link) ==
    {c \in ContainerIds : \/ link = "/dbs/db1/colls/" \o c
                          \/ link = "dbs/db1/colls/" \o c}

ContainerProperties(id) ==
    [id |-> id, _self |-> "dbs/Rd==/colls/" \o id \o "==/"]

CreateContainerStatus(colls, id) ==
    IF id \in SeqToSet(colls) THEN Conflict ELSE 201

ReadContainerStatus(colls, link) ==
    IF ResolveContainer(link) \cap SeqToSet(colls) # {} THEN 200 ELSE NotFound

DeleteContainerStatus(colls, link) ==
    IF ResolveContainer(link) \cap SeqToSet(colls) # {} THEN 204 ELSE NotFound

RECURSIVE ReadContainers(_)
ReadContainers(colls) ==
    IF colls = <<>> THEN <<>>
    ELSE <<ContainerProperties(Head(colls))>> \o ReadContainers(Tail(colls))

\* The service addresses a user of the database as {database link}/users/{id}.
ResolveUser(link) ==
    {u \in UserIds : \/ link = "/dbs/db1/users/" \o u
                     \/ link = "dbs/db1/users/" \o u}

\* ContainerResponse.__init__ in the azure variant, Container.__init__ in
\* the prototype
ContainerResponse(v, database, id, properties) ==
    IF v = "azure"
    THEN [t |-> "Container", id |-> id,
          collection_link |-> Container(v, database, id).collection_link,
          properties |-> properties]
    ELSE Container(v, database, id)

\* str(x) inside an f-string: a str is itself, any other object its repr
Format(x) == x.v

\* getattr(container, "collection_link", f"{self.database_link}/colls/{container}")
CollsLink(container) ==
    IF "collection_link" \in DOMAIN container THEN container.collection_link
    ELSE TheDatabase.database_link \o "/colls/" \o Format(container)

\* getattr(container, "collection_link", f"{self.database_link}/cols/{container}")
ColsLink(container) ==
    IF "collection_link" \in DOMAIN container THEN container.collection_link
    ELSE TheDatabase.database_link \o "/cols/" \o Format(container)

\* what callers pass as container: a raw id or, in the azure variant, a
\* Container handle
ContainerArguments ==
    {PyStr(c) : c \in ContainerIds}
    \cup (IF variant = "azure"
          THEN {Container(variant, TheDatabase, c) : c \in ContainerIds}
          ELSE {})

create_container(id) ==
    LET status == CreateContainerStatus(containers, id)
    IN  /\ call' = [op |-> "create_container", id |-> id]
        /\ sent' = <<AnswerWithBody("CreateContainer",
                                    TheDatabase.database_link, status,
                                    [id |-> id])>>
        /\ IF status >= 400
           THEN /\ outcome' = Raised("HTTPFailure", status)
                /\ UNCHANGED <<containers, last_response_headers>>
           ELSE /\ containers' = Append(containers, id)
                /\ outcome' = Returned(ContainerResponse(variant, TheDatabase,
                                  ContainerProperties(id).id,
                                  ContainerProperties(id)))
                /\ last_response_headers' = PlainHeaders
        /\ UNCHANGED <<variant, databases, session_token, databases_gen,
                       items_gen>>

\* Database.delete_container (azure variant only)
delete_container(container) ==
    LET collection_link == CollsLink(container)
        status == DeleteContainerStatus(containers, collection_link)
    IN  /\ variant = "azure"
        /\ call' = [op |-> "delete_container", container |-> container]
        /\ sent' = <<Answer("DeleteContainer", collection_link, status)>>
        /\ IF status >= 400
           THEN /\ outcome' = Raised("HTTPFailure", status)
                /\ UNCHANGED <<containers, last_response_headers>>
           ELSE /\ containers' =
                       Remove(containers,
                              CHOOSE c \in ResolveContainer(collection_link) : TRUE)
                /\ outcome' = Returned(None)
                /\ last_response_headers' = PlainHeaders
        /\ UNCHANGED <<variant, databases, session_token, databases_gen,
                       items_gen>>

\* the list comprehension of list_containers: one handle per container
WrapContainers(v, feed) ==
    [i \in 1..Len(feed) |-> ContainerResponse(v, TheDatabase, feed[i].id, feed[i])]

\* get_container: the azure variant reads the container's link; the
\* prototype takes the first element of list_containers(query=...), whose
\* body does not use the query
get_container(container_or_id) ==
    /\ call' = [op |-> "get_container", container |-> container_or_id,
                before |-> containers]
    /\ IF variant = "azure"
       THEN LET collection_link == CollsLink(container_or_id)
                status == ReadContainerStatus(containers, collection_link)
                container == ContainerProperties(
                    CHOOSE c \in ResolveContainer(collection_link) : TRUE)
            IN  /\ sent' = <<Answer("ReadContainer", collection_link, status)>>
                /\ IF status >= 400
                   THEN /\ outcome' = Raised("HTTPFailure", status)
                        /\ UNCHANGED last_response_headers
                   ELSE /\ outcome' = Returned(ContainerResponse(variant,
                                          TheDatabase, container.id, container))
                        /\ last_response_headers' = PlainHeaders
       ELSE LET feed == ReadContainers(containers)
                handles == WrapContainers(variant, feed)
            IN  /\ sent' = <<AnswerWithBody("ReadContainers",
                                            TheDatabase.database_link, 200,
                                            feed)>>
                /\ last_response_headers' = PlainHeaders
                /\ outcome' = IF handles = <<>> THEN Raised("ValueError", 0)
                              ELSE Returned(handles[1])
    /\ UNCHANGED <<variant, databases, containers, session_token,
                   databases_gen, items_gen>>

\* Database.get_container_properties (azure variant only)
get_container_properties(container) ==
    LET collection_link == ColsLink(container)
        status == ReadContainerStatus(containers, collection_link)
    IN  /\ variant = "azure"
        /\ call' = [op |-> "get_container_properties",
                    container |-> container]
        /\ sent' = <<Answer("ReadContainer", collection_link, status)>>
        /\ IF status >= 400
           THEN /\ outcome' = Raised("HTTPFailure", status)
                /\ UNCHANGED last_response_headers
           ELSE /\ outcome' = Returned(ContainerProperties(
                       CHOOSE c \in ResolveContainer(collection_link) : TRUE))
                /\ last_response_headers' = PlainHeaders
        /\ UNCHANGED <<variant, databases, containers, session_token,
                       databases_gen, items_gen>>

\* the builtin function id, which the name id denotes where no parameter
\* or local of that name is in scope
BuiltinId == [t |-> "builtin_function_or_method", v |-> "<built-in function id>"]

\* a User object on which the caller has set user_link
UserWithLink(id) ==
    [t |-> "User", v |-> "<User object>",
     user_link |-> "dbs/Rd==/users/" \o id \o "==/"]

UserArguments ==
    {PyStr(u) : u \in UserIds} \cup {UserWithLink(u) : u \in UserIds}

\* Database.get_user_link
get_user_link(id_or_user) ==
    IF "user_link" \in DOMAIN id_or_user THEN id_or_user.user_link
    ELSE TheDatabase.database_link \o "/users/" \o Format(id_or_user)

\* the service's answer for a user link: one that names no user is not
\* found; otherwise the user is there or not
UserStatuses(link, found) ==
    IF ResolveUser(link) = {} /\ link \notin {UserWithLink(u).user_link : u \in UserIds}
    THEN {NotFound} ELSE {found, NotFound}

\* Database.get_user (azure variant only)
get_user(id, status) ==
    LET link == get_user_link(id)
    IN  /\ variant = "azure"
        /\ status \in UserStatuses(link, 200)
        /\ call' = [op |-> "get_user", user |-> id]
        /\ sent' = <<Answer("ReadUser", link, status)>>
        /\ IF status >= 400
           THEN /\ outcome' = Raised("HTTPFailure", status)
                /\ UNCHANGED last_response_headers
           ELSE /\ outcome' = Returned([id |-> Format(id)])
                /\ last_response_headers' = PlainHeaders
        /\ UNCHANGED <<variant, databases, containers, session_token,
                       databases_gen, items_gen>>

\* Database.delete_user (azure variant only): the method has no parameter
\* or local named id, so id is the builtin
delete_user(user, status) ==
    LET link == get_user_link(BuiltinId)
    IN  /\ variant = "azure"
        /\ status \in UserStatuses(link, 204)
        /\ call' = [op |-> "delete_user", user |-> user]
        /\ sent' = <<Answer("DeleteUser", link, status)>>
        /\ IF status >= 400
           THEN /\ outcome' = Raised("HTTPFailure", status)
                /\ UNCHANGED last_response_headers
           ELSE /\ outcome' = Returned(None)
                /\ last_response_headers' = PlainHeaders
        /\ UNCHANGED <<variant, databases, containers, session_token,
                       databases_gen, items_gen>>

\* ------------------------------------------------ set_container_properties
\* int(x)
int(x) ==
    IF x.t = "int" THEN Ok(x)
    ELSE IF x.t = "bool" THEN Ok(PyInt(IF x.v THEN 1 ELSE 0))
    ELSE Error("TypeError")

\* the filter of the dict comprehension: value is not None / value != None
NotNoneMutant(v, value) == TRUE

NotNone(v, value) == value # None

\* {key: value for key, value in d.items() if value is not None}
Comprehension(v, d) ==
    [key \in {k \in DOMAIN d : NotNone(v, d[k])} |-> d[key]]

\* getattr(container, "id", container)
GetattrId(container) ==
    IF "id" \in DOMAIN container THEN PyStr(container.id) ELSE container

\* id or self.id
IdOr(id, self_id) ==
    IF id = None \/ id = PyStr("") THEN PyStr(self_id) ELSE id

\* The azure variant's method is Database.set_container_properties(container,
\* ...), target being its container argument; the prototype's is
\* Container.set_container_properties(id=..., ...), target being its id.
Targets ==
    IF variant = "azure" THEN {PyStr(ContainerId), TheContainer}
    ELSE {None, PyStr("c2")}

PartitionKeys == {None, PyDict("pk")}
IndexingPolicies == {None, PyDict("ip")}
DefaultTtls == {None, PyInt(3600), PyInt(0), PyBool(TRUE)}
ConflictPolicies == {None, PyDict("crp")}

set_container_properties(target, partition_key, indexing_policy, default_ttl, conflict_resolution_policy, status) ==
    LET container_id == IF variant = "azure" THEN GetattrId(target)
                        ELSE IdOr(target, TheContainer.id)
        ttl == int(default_ttl)
        parameters ==
            Comprehension(variant,
                ("id" :> container_id)
                @@ ("partitionKey" :> partition_key)
                @@ ("indexingPolicy" :> indexing_policy)
                @@ ("defaultTtl" :> ttl.value)
                @@ ("conflictResolutionPolicy" :> conflict_resolution_policy))
        collection_link ==
            IF variant = "azure"
            THEN TheDatabase.database_link \o "/colls/" \o container_id.v
            ELSE TheContainer.collection_link
    IN  /\ call' = [op |-> "set_container_properties", target |-> target,
                    partition_key |-> partition_key,
                    indexing_policy |-> indexing_policy,
                    default_ttl |-> default_ttl,
                    conflict_resolution_policy |-> conflict_resolution_policy]
        /\ IF ~ttl.ok
           THEN /\ sent' = <<>>
                /\ outcome' = Raised(ttl.error, 0)
                /\ UNCHANGED last_response_headers
           ELSE /\ sent' = <<AnswerWithBody("ReplaceContainer", collection_link,
                                            status, parameters)>>
                /\ IF status >= 400
                   THEN /\ outcome' = Raised("HTTPFailure", status)
                        /\ UNCHANGED last_response_headers
                   ELSE /\ outcome' = Returned(None)
                        /\ last_response_headers' = PlainHeaders
        /\ UNCHANGED <<containers, variant, databases, session_token, databases_gen,
                       items_gen>>

Init ==
    /\ variant \in Variants
    /\ databases = <<>>
    /\ containers = <<>>
    /\ last_response_headers = PlainHeaders
    /\ session_token = None
    /\ databases_gen = [state |-> "none"]
    /\ items_gen = [state |-> "none"]
    /\ call = [op |-> "Client"]
    /\ sent = <<>>
    /\ outcome = Returned(None)

\* Client: the account's databases
Next ==
    \/ \E id \in DbIds, f \in BOOLEAN, fault \in {0} \cup OtherFailures :
           create_database(id, f, fault)
    \/ \E id \in DbIds : get_database(id)
    \/ \E id \in DbIds : delete_database(id)
    \/ \E query \in {None} \cup Queries : list_databases(query)
    \/ next_database

Spec == Init /\ [][Next]_vars

\* Container: the items of one container
ContainerNext ==
    \/ \E id \in ItemIds, status \in {200, NotFound}, h \in ResponseHeaders :
           get_item(id, status, h)
    \/ list_items
    \/ \E status \in {200, NotFound}, h \in ResponseHeaders, n \in 0..MaxItems :
           next_item(status, h, n)
    \/ \E item \in ItemArguments, body \in Bodies, status \in {200, NotFound},
          h \in ResponseHeaders : replace_item(item, body, status, h)
    \/ \E item \in ItemArguments, status \in {204, NotFound},
          h \in ResponseHeaders : delete_item(item, status, h)

ContainerSpec == Init /\ [][ContainerNext]_vars

\* Container properties: updates of the container's definition
PropertiesNext ==
    \E target \in Targets, pk \in PartitionKeys, ip \in IndexingPolicies,
       ttl \in DefaultTtls, crp \in ConflictPolicies,
       status \in {200, NotFound} :
        set_container_properties(target, pk, ip, ttl, crp, status)

PropertiesSpec == Init /\ [][PropertiesNext]_vars

\* Database: the containers and users of one database
DatabaseNext ==
    \/ \E id \in ContainerIds : create_container(id)
    \/ \E container \in ContainerArguments : delete_container(container)
    \/ \E container \in ContainerArguments : get_container(container)
    \/ \E container \in ContainerArguments : get_container_properties(container)
    \/ \E target \in Targets, pk \in PartitionKeys, ip \in IndexingPolicies,
          ttl \in DefaultTtls, crp \in ConflictPolicies,
          status \in {200, NotFound} :
           set_container_properties(target, pk, ip, ttl, crp, status)
    \/ \E user \in UserArguments, status \in {200, NotFound} :
           get_user(user, status)
    \/ \E user \in UserArguments, status \in {204, NotFound} :
           delete_user(user, status)

DatabaseSpec == Init /\ [][DatabaseNext]_vars

\* ================================================================ claims
SessionTokenKey == "x-ms-session-token"

\* C1: when CreateDatabase answers 409 because the database exists,
\* create_database raises that conflict if fail_if_exists, and otherwise
\* raises nothing and returns a handle with the given id (both variants).
C1_ConflictIsGetOrCreate ==
    (call.op = "create_database" /\ sent[1].status = Conflict)
    => /\ call.id \in SeqToSet(databases)
       /\ call.fail_if_exists =>
              /\ outcome = Raised("HTTPFailure", Conflict)
              /\ Len(sent) = 1
       /\ ~call.fail_if_exists =>
              /\ outcome.kind = "returned"
              /\ outcome.value.id = call.id

C1_Witness ==
    /\ call.op = "create_database" /\ sent[1].status = Conflict
    /\ ~call.fail_if_exists
    /\ outcome.kind = "returned" /\ outcome.value.id = call.id

\* C2: a failure of CreateDatabase with a status other than 409 propagates
\* unchanged from create_database, whatever fail_if_exists is, and no
\* fallback read of the database is attempted.
C2_OtherFailurePropagates ==
    (call.op = "create_database" /\ sent[1].status \in OtherFailures)
    => /\ outcome = Raised("HTTPFailure", sent[1].status)
       /\ Len(sent) = 1

\* the keys a caller supplied non-null, by their payload names
SuppliedKeys ==
    {"id"}
    \cup (IF call.partition_key # None THEN {"partitionKey"} ELSE {})
    \cup (IF call.indexing_policy # None THEN {"indexingPolicy"} ELSE {})
    \cup (IF call.default_ttl # None THEN {"defaultTtl"} ELSE {})
    \cup (IF call.conflict_resolution_policy # None
          THEN {"conflictResolutionPolicy"} ELSE {})

\* C3: with default_ttl supplied, the payload of ReplaceContainer has exactly
\* the keys id, defaultTtl and those of the other supplied fields; no
\* omitted field is present and no key maps to None.
C3_PayloadOnlySupplied ==
    (call.op = "set_container_properties" /\ call.default_ttl # None)
    => /\ Len(sent) = 1
       /\ sent[1].verb = "ReplaceContainer"
       /\ DOMAIN sent[1].body = SuppliedKeys
       /\ {"id", "defaultTtl"} \subseteq DOMAIN sent[1].body
       /\ \A key \in DOMAIN sent[1].body : sent[1].body[key] # None

C3_Witness ==
    /\ call.op = "set_container_properties"
    /\ call.default_ttl = PyInt(3600)
    /\ call.partition_key = None /\ call.indexing_policy = None
    /\ call.conflict_resolution_policy = None
    /\ DOMAIN sent[1].body = {"id", "defaultTtl"}
    /\ sent[1].body["defaultTtl"] = PyInt(3600)

\* C4: for every subset of the four optional fields a caller omits, default
\* TTL included, set_container_properties fails with no local error and
\* issues exactly one ReplaceContainer whose payload is id plus the supplied
\* fields.
C4_AnySubsetOmitted ==
    call.op = "set_container_properties"
    => /\ outcome.kind = "raised" => outcome.error = "HTTPFailure"
       /\ Len(sent) = 1
       /\ sent[1].verb = "ReplaceContainer"
       /\ DOMAIN sent[1].body = SuppliedKeys

\* C5: (azure) after a successful get_item, session_token is the session
\* token of that call's response headers, or, when they carry none, the
\* value it had before the call; once set it is not reset to None.
C5_GetItemRecordsToken ==
    (variant = "azure" /\ call.op = "get_item" /\ outcome.kind = "returned")
    => LET headers == outcome.value.response_headers
       IN  /\ headers = last_response_headers
           /\ SessionTokenKey \in DOMAIN headers
                  => session_token = headers[SessionTokenKey]
           /\ SessionTokenKey \notin DOMAIN headers
                  => session_token = call.before
           /\ call.before # None => session_token # None

C5_Witness ==
    /\ variant = "azure" /\ call.op = "get_item" /\ outcome.kind = "returned"
    /\ SessionTokenKey \notin DOMAIN outcome.value.response_headers
    /\ session_token \in {PyStr(tk) : tk \in Tokens}

\* C6: (azure) once the sequence of a list_items call is consumed,
\* session_token is the session token of that list call's response headers.
C6_ListItemsRecordsToken ==
    (/\ variant = "azure"
     /\ call.op = "next_item"
     /\ items_gen.state = "finished"
     /\ SessionTokenKey \in DOMAIN items_gen.headers)
    => session_token = items_gen.headers[SessionTokenKey]

\* C7: replace_item and delete_item given an Item carrying _self pass exactly
\* that _self as the document link to ReplaceItem / DeleteItem, not the link
\* derived from collection_link and the item's id (both variants).
C7_ItemResolvesToSelf ==
    (/\ call.op \in {"replace_item", "delete_item"}
     /\ call.item.t = "Item"
     /\ "_self" \in DOMAIN call.item.data)
    => /\ Len(sent) = 1
       /\ sent[1].verb = (IF call.op = "replace_item"
                          THEN "ReplaceItem" ELSE "DeleteItem")
       /\ sent[1].link = call.item.data._self
       /\ sent[1].link #
              TheContainer.collection_link \o "/docs/" \o call.item.data.id

C7_Witness ==
    /\ call.op = "delete_item"
    /\ call.item.t = "Item"
    /\ "_self" \in DOMAIN call.item.data
    /\ sent # <<>>
    /\ sent[1].link = call.item.data._self

\* C8: replace_item and delete_item given a bare link string raise no local
\* error and pass that string unchanged as the document link (both
\* variants).
C8_LinkStringPassedUnchanged ==
    (call.op \in {"replace_item", "delete_item"} /\ call.item.t = "str")
    => /\ outcome.kind = "raised" => outcome.error = "HTTPFailure"
       /\ Len(sent) = 1
       /\ sent[1].link = call.item.v

\* C9: delete_database(id) on an id no database has raises the transport's
\* 404 failure, nothing else, and leaves the remote databases unchanged.
C9_DeleteMissingPropagates ==
    (call.op = "delete_database" /\ call.id \notin SeqToSet(call.before))
    => /\ Len(sent) = 1
       /\ sent[1].status = NotFound
       /\ outcome = Raised("HTTPFailure", NotFound)
       /\ databases = call.before

C9_Witness ==
    /\ call.op = "delete_database"
    /\ call.before # <<>>
    /\ call.id \notin SeqToSet(call.before)
    /\ outcome = Raised("HTTPFailure", NotFound)

\* C10: list_databases() yields one handle per database the transport
\* returned, in its order and with the same ids, after any creates and
\* deletes; on an empty account it yields nothing and raises no error.
C10_ListDatabasesFaithful ==
    (databases_gen.state \in {"suspended", "finished"}
     /\ databases_gen.query = None)
    => LET feed == databases_gen.feed
           yielded == databases_gen.yielded
       IN  /\ Len(yielded) <= Len(feed)
           /\ \A i \in 1..Len(yielded) : yielded[i].id = feed[i].id
           /\ databases_gen.state = "finished" => Len(yielded) = Len(feed)
           /\ (call.op = "next_database" /\ sent # <<>>)
                  => /\ sent[1].body = feed
                     /\ [i \in 1..Len(feed) |-> feed[i].id] = databases
           /\ feed = <<>> => databases_gen.state = "finished"
           /\ (call.op = "next_database" /\ outcome.kind = "raised")
                  => /\ outcome.error = "StopIteration"
                     /\ databases_gen.state = "finished"

C10_Witness ==
    /\ databases_gen.state = "finished"
    /\ databases_gen.query = None
    /\ Len(databases_gen.yielded) = 2
    /\ databases_gen.yielded[1].id = "db2"

\* C11: (azure) get_container, get_container_properties, delete_container
\* and set_container_properties given a raw container id all address the
\* link {database_link}/colls/{id}.
C11_RawIdSameLink ==
    /\ (/\ variant = "azure"
        /\ call.op \in {"get_container", "get_container_properties",
                        "delete_container"}
        /\ call.container.t = "str")
       => sent[1].link =
              TheDatabase.database_link \o "/colls/" \o call.container.v
    /\ (/\ variant = "azure"
        /\ call.op = "set_container_properties"
        /\ call.target.t = "str"
        /\ sent # <<>>)
       => sent[1].link =
              TheDatabase.database_link \o "/colls/" \o call.target.v

\* C12: get_container(id) for the id of an existing container returns a
\* handle with that id, whatever other containers there are and in whatever
\* order; for an id no container has it returns no handle of another
\* container (both variants).
C12_GetContainerById ==
    (call.op = "get_container" /\ call.container.t = "str")
    => /\ call.container.v \in SeqToSet(call.before)
              => /\ outcome.kind = "returned"
                 /\ outcome.value.id = call.container.v
       /\ (call.container.v \notin SeqToSet(call.before)
           /\ outcome.kind = "returned")
              => outcome.value.id = call.container.v

\* C13: (azure) delete_user(user) issues DeleteUser on the link of the given
\* user: its user_link, or {database_link}/users/{user} for a raw id, the
\* link get_user(user) reads.
C13_DeleteUserLink ==
    (variant = "azure" /\ call.op = "delete_user")
    => /\ Len(sent) = 1
       /\ sent[1].verb = "DeleteUser"
       /\ sent[1].link =
              (IF "user_link" \in DOMAIN call.user THEN call.user.user_link
               ELSE TheDatabase.database_link \o "/users/" \o call.user.v)

====
